---- MODULE Spec2Model ----
(***************************************************************************)
(* A model of the event multiplexer of the cache client:                   *)
(* src/src/event/map-events-manager.ts (MapEventsManager, ListenerGroup,   *)
(* KeyListenerGroup, FilterListenerGroup).                                 *)
(*                                                                         *)
(* The program runs on one JavaScript executor.  A step of the model is    *)
(* one run-to-completion piece of code: the synchronous part of a call,    *)
(* the continuation of an await, or one callback of the duplex stream.     *)
(* Stream callbacks are tasks (the grpc stream delivers each message and   *)
(* each event in a task of its own), continuations are microtasks: a       *)
(* stream callback runs only when no continuation is runnable.  The        *)
(* application may make a call between any two steps.                      *)
(***************************************************************************)
EXTENDS Naturals, Integers, Sequences, FiniteSets, TLC

\* ------------------------------------------------------------------ bounds

\* The number of register/remove/close calls the application makes when it
\* does not wait for a call to complete before making the next one.
MaxCalls == 3

\* The number of calls the application makes when it awaits each call.
MaxSerialCalls == 4

\* The number of calls the application makes in the runs with events.
MaxEventCalls == 2

\* The number of duplex streams the client may open in one run.
MaxStreams == 2

\* The number of ListenerGroup objects constructed in one run.
MaxGroups == 3

\* The number of pages the server holds, of entries in a page, and of next()
\* calls the consumer makes.
MaxPages == 3
MaxEntries == 2
MaxNext == 8

\* The number of page loads that fail.
MaxPageErrors == 1

\* The number of calls made on the set views.
MaxSetCalls == 2

\* The number of getCache calls made on the session.
MaxGets == 3

\* The number of getKey and getValue calls made on an entry.
MaxEntryReads == 3

\* The number of EVENT and lifecycle responses handled in the runs that keep
\* them.
MaxInbound == 2

Handlers == {"h1", "h2"}
Keys == {"k1"}
Filters == {"f1"}

\* MapEventsManager.DEFAULT_FILTER, the singleton filter for all events, and
\* the null an application passes for it.
DEFAULT_FILTER == "always"
NullFilter == "null"

\* The filters that are keys of filterMap.
FilterKeys == Filters \cup {DEFAULT_FILTER}
EventIds == {"inserted", "updated", "deleted"}

VARIABLES
    streamPromise,          \* 0 (null) or the stream the promise is for
    streams,                \* per stream: its state and whether INIT was acked
    markedForClose,
    pendingSubscriptions,   \* uid -> callback, as a set of [uid, owner]
    keyMap,                 \* key -> group (0: no entry)
    filterMap,              \* filter -> group (0: no entry)
    filterId2ListenerGroup, \* filter id -> group (0: no entry)
    groups,                 \* the ListenerGroup objects constructed so far
    calls,                  \* the asynchronous calls in progress
    nextUid,                \* the request factory's next correlation id
    wire,                   \* every request written, in order
    unacked,                \* requests the server has still to answer
    emitted,                \* what the map's emitter has emitted, in order
    lastDispatch,           \* the handler invocations of the last EVENT
    registered,             \* the application's view: handler -> lite flag, per target
    lastCall,               \* the last register/remove call that completed
    closed,                 \* closeEventStream calls that completed
    budget,                 \* calls the application may still make
    serial,                 \* TRUE: the application awaits each call
    inbound,                \* the EVENT and lifecycle responses handled, when kept
    insertOrder,            \* per group: its handlers, in the order they were added
    \* PageAdvancer (cache/streamed_collection.ts)
    exhausted,              \* PageAdvancer.exhausted
    data,                   \* PageAdvancer.data: the raw messages still to yield
    cookie,                 \* PageAdvancer.cookie
    pageCall,               \* the page call in progress, and where next() stands
    pages,                  \* the pages the server holds
    requests,               \* the cookie of every page request issued, in order
    yielded,                \* what the next() calls have returned, in order
    \* the set views
    setCalls,               \* the calls made on the set views, with their outcome
    \* Session
    sessionMarkedForClose,  \* Session.markedForClose
    sessionClosed,          \* Session.closed
    caches,                 \* Session.caches: the cache keys held
    sessionClose,           \* where Session.close() stands
    gets,                   \* the getCache calls made, with their outcome
    \* NamedCacheEntry
    entry,                  \* the fields of one NamedCacheEntry
    entryReads,             \* the getKey / getValue calls made, with what they returned
    deserialized            \* the bytes handed to serializer.deserialize, in order

\* The state of the events manager.
managerVars == <<streamPromise, streams, markedForClose, pendingSubscriptions,
                 keyMap, filterMap, filterId2ListenerGroup, groups, calls, nextUid,
                 wire, unacked, emitted, lastDispatch, registered, lastCall, closed,
                 budget, serial, inbound, insertOrder>>

\* The state of the set views, the page advancer and the session.
advancerVars == <<exhausted, data, cookie, pageCall, pages, requests, yielded>>
sessionVars == <<sessionMarkedForClose, sessionClosed, caches, sessionClose, gets>>
entryVars == <<entry, entryReads, deserialized>>
cacheVars == <<advancerVars, setCalls, sessionVars, entryVars>>

vars == <<managerVars, cacheVars>>

\* ------------------------------------------------- request factory (uids)

\* RequestFactory.mapListenerRequest / mapEventSubscribe: every request is
\* stamped with a correlation id that is not reused.
NewUid(n) == n

\* The filter id a filter-subscription request carries: one id per filter.
FilterIdOf(f) == IF f = "f1" THEN 7 ELSE 8

\* The filter ids events carry: those of the filters, and one (9) that the
\* client has no group for.
FilterIds == {FilterIdOf(f) : f \in FilterKeys} \cup {9}

Targets == [kind : {"key"}, target : Keys] \cup [kind : {"filter"}, target : FilterKeys]

\* mapListenerRequest(subscribe, keyOrFilter, isLite = false)
MapListenerRequest(subscribe, g, isLite, uid) ==
    [type |-> IF subscribe THEN "SUBSCRIBE" ELSE "UNSUBSCRIBE",
     kind |-> g.kind, target |-> g.target, lite |-> isLite, uid |-> uid,
     filterId |-> IF g.kind = "filter" THEN FilterIdOf(g.target) ELSE 0]

\* mapEventSubscribe(): the INIT request
MapEventSubscribe(uid) ==
    [type |-> "INIT", kind |-> "none", target |-> "none", lite |-> FALSE,
     uid |-> uid, filterId |-> 0]

\* ------------------------------------------------------------ ListenerGroup

\* new KeyListenerGroup(helper, key) / new FilterListenerGroup(helper, filter)
NewGroup(kind, target) ==
    [kind |-> kind, target |-> target, listeners |-> << >>,
     registeredIsLite |-> TRUE, isLiteFalseCount |-> 0]

\* this.listeners.get(listener): the position of the record, 0 when absent
ListenersGet(g, h) ==
    IF \E i \in 1..Len(g.listeners) : g.listeners[i].h = h
    THEN CHOOSE i \in 1..Len(g.listeners) : g.listeners[i].h = h
    ELSE 0

\* A map that iterates its newest key first.
ListenersPutFirst(ls, h, isLite) ==
    <<[h |-> h, isLite |-> isLite]>> \o SelectSeq(ls, LAMBDA r : r.h # h)

\* this.listeners.set(listener, {isLite}): a present key keeps its position
ListenersSet(ls, h, isLite) ==
    IF \E i \in 1..Len(ls) : ls[i].h = h
    THEN [i \in 1..Len(ls) |-> IF ls[i].h = h THEN [h |-> h, isLite |-> isLite] ELSE ls[i]]
    ELSE Append(ls, [h |-> h, isLite |-> isLite])

\* this.listeners.delete(listener)
ListenersDelete(ls, h) == SelectSeq(ls, LAMBDA r : r.h # h)

\* addListener: "This listener is registered with the same isLite status."
AlreadyRegistered(g, h, isLite) ==
    /\ ListenersGet(g, h) # 0
    /\ g.listeners[ListenersGet(g, h)].isLite = isLite

\* addListener: the record and the counter after listeners.set
AddRecord(g, h, isLite) ==
    [g EXCEPT !.listeners = ListenersSet(g.listeners, h, isLite),
              !.isLiteFalseCount = IF ~isLite THEN @ + 1 ELSE @]

\* addListener: requireRegistrationRequest, evaluated after the record is set
RequireRegistrationRequest(g, isLite) ==
    Len(g.listeners) = 1 \/ (g.registeredIsLite /\ ~isLite)

\* addListener: "A change in isLite; So need to do re-registration"
NeedsUnsubscribeFirst(g) == Len(g.listeners) > 1

\* removeListener: the guard "This listener was never registered."
NeverRegistered(g, h) == ListenersGet(g, h) = 0 \/ Len(g.listeners) = 0

\* removeListener: the counter after a record with flag wasLite is removed
\* from a group that keeps at least one record
CountAfterRemove(g, wasLite) ==
    IF ~wasLite THEN g.isLiteFalseCount - 1 ELSE g.isLiteFalseCount

\* removeListener: the re-registration with isLite = true
NeedsDowngrade(wasLite, count) == ~wasLite /\ count = 0

\* ------------------------------------------------------------------ state

\* PageAdvancer.cookie before any page was loaded (undefined), and the
\* cookie of the last page (of length 0).
NoCookie == "undefined"
EmptyCookie == ""

\* No page call is in progress and no next() call is pending.
NoPageCall == [pc |-> "idle", firstEntry |-> TRUE, data |-> << >>, sent |-> 0,
               page |-> 0, rpc |-> 0]

NoCall == [op |-> "none", kind |-> "none", target |-> "none", h |-> "none",
           isLite |-> FALSE, preListeners |-> << >>, preRegisteredIsLite |-> TRUE,
           preApp |-> "none", wrote |-> << >>, gid |-> 0]

\* The state the constructor leaves: it calls ensureStream(), which opens the
\* duplex stream, registers the INIT callback and writes the INIT request.
\* The application makes at most b calls, and awaits each one when ser; the
\* EVENT and lifecycle responses handled are kept when keep.
InitManager(b, ser, keep) ==
    /\ streamPromise = 1
    /\ streams = [s \in 1..MaxStreams |->
                    IF s = 1 THEN [st |-> "open", init |-> "pending"]
                             ELSE [st |-> "unopened", init |-> "pending"]]
    /\ markedForClose = FALSE
    /\ pendingSubscriptions = {[uid |-> NewUid(1), owner |-> "init", stream |-> 1]}
    /\ keyMap = [k \in Keys |-> 0]
    /\ filterMap = [f \in FilterKeys |-> 0]
    /\ filterId2ListenerGroup = [i \in FilterIds |-> 0]
    /\ groups = << >>
    /\ calls = {}
    /\ nextUid = 2
    /\ wire = <<[req |-> MapEventSubscribe(NewUid(1)), stream |-> 1]>>
    /\ unacked = {[uid |-> NewUid(1), stream |-> 1]}
    /\ emitted = << >>
    /\ lastDispatch = [key |-> "none", filterIds |-> {}, id |-> "none",
                       calls |-> << >>, threw |-> "none"]
    /\ registered = [t \in Targets |-> [h \in Handlers |-> "none"]]
    /\ lastCall = NoCall
    /\ closed = 0
    /\ budget = b
    /\ serial = ser
    /\ inbound = [on |-> keep, log |-> << >>]
    /\ insertOrder = << >>

\* A page advancer on which next() was not called; the server holds one
\* page, the cookie envelope with an empty cookie.
InitAdvancerIdle ==
    /\ exhausted = FALSE
    /\ data = << >>
    /\ cookie = NoCookie
    /\ pageCall = NoPageCall
    /\ pages = <<[cookie |-> EmptyCookie, entries |-> 0]>>
    /\ requests = << >>
    /\ yielded = << >>

\* Set views on which no call was made.
InitSetsIdle == setCalls = << >>

\* The field of an object that was never assigned.
Undefined == [type |-> "undefined", v |-> "undefined"]

\* No entry is in use.
InitEntryIdle ==
    /\ entry = [keyBytes |-> "null", valueBytes |-> "null", key |-> Undefined,
                value |-> Undefined]
    /\ entryReads = << >>
    /\ deserialized = << >>

\* A session on which neither getCache nor close was called.
InitSessionIdle ==
    /\ sessionMarkedForClose = FALSE
    /\ sessionClosed = FALSE
    /\ caches = {}
    /\ sessionClose = "none"
    /\ gets = << >>

\* The events manager of one map, with nothing else of the client in use.
InitWith(b, ser, keep) ==
    /\ InitManager(b, ser, keep)
    /\ InitAdvancerIdle
    /\ InitSetsIdle
    /\ InitSessionIdle
    /\ InitEntryIdle

\* An application that does not wait for its calls to complete.
Init == InitWith(MaxCalls, FALSE, FALSE)

\* An application that awaits every call.
InitSerial == InitWith(MaxSerialCalls, TRUE, FALSE)

\* An application that awaits every call, while the server sends events.
InitEvents == InitWith(MaxEventCalls, TRUE, FALSE)

\* The same, with the responses handled kept in order.
InitKept == InitWith(MaxEventCalls, TRUE, TRUE)

\* An application that awaits every one of its MaxCalls calls.
InitRace == InitWith(MaxCalls, TRUE, FALSE)

\* -------------------------------------------------------------- the stream

\* The application may start a call: it has calls left and, when it awaits
\* its calls, none is in progress.
MayCall == budget > 0 /\ (serial => calls = {})

Unopened == {s \in 1..MaxStreams : streams[s].st = "unopened"}

\* ensureStream() can run: the promise is cached, or a stream can be opened.
CanEnsureStream == streamPromise # 0 \/ Unopened # {}

\* ensureStream(), called when the next free uid is n: the cached promise,
\* or a new stream with its INIT callback registered and INIT written.
EnsureStream(n) ==
    IF streamPromise # 0
    THEN [sp |-> streamPromise, ss |-> streams, pend |-> pendingSubscriptions,
          w |-> wire, un |-> unacked, n |-> n]
    ELSE LET s == CHOOSE x \in Unopened : \A y \in Unopened : x <= y
         IN [sp |-> s,
             ss |-> [streams EXCEPT ![s] = [st |-> "open", init |-> "pending"]],
             pend |-> pendingSubscriptions \cup
                        {[uid |-> NewUid(n), owner |-> "init", stream |-> s]},
             w |-> Append(wire, [req |-> MapEventSubscribe(NewUid(n)), stream |-> s]),
             un |-> unacked \cup {[uid |-> NewUid(n), stream |-> s]},
             n |-> n + 1]

\* The stream was created by client.events().
StreamCreated(s) == streams[s].st # "unopened"

\* The promise of stream s is resolved: the callback registered for the INIT
\* request was called with the server's answer.
PromiseResolved(s) == streams[s].init = "acked"

\* A continuation (microtask) is runnable: stream callbacks wait for it.
Runnable(c) ==
    \/ c.pc \in {"p_unsub", "p_sub"}
    \/ c.pc \in {"w_unsub", "w_sub", "c_await"} /\ PromiseResolved(c.stream)

MicrotaskPending == \E c \in calls : Runnable(c)

\* The continuations that wait for a stream promise run in the order in
\* which they were attached to it (seq): c is the first of them.
FirstWaiting(c) ==
    \A d \in calls : d.pc \in {"w_unsub", "w_sub", "c_await"} => c.seq <= d.seq

LiteName(isLite) == IF isLite THEN "lite" ELSE "full"

KeyT(k) == [kind |-> "key", target |-> k]
FilterT(f) == [kind |-> "filter", target |-> f]

\* The record kept of a call: what it was, the group before it, what it wrote.
Summary(op, g, gid, h, isLite, wrote) ==
    [op |-> op, kind |-> g.kind, target |-> g.target, h |-> h, isLite |-> isLite,
     preListeners |-> g.listeners, preRegisteredIsLite |-> g.registeredIsLite,
     preApp |-> registered[[kind |-> g.kind, target |-> g.target]][h],
     wrote |-> wrote, gid |-> gid]

\* doSubscribe / doUnsubscribe up to the await in writeRequest: the request
\* is built and ensureStream() called; the write waits for the stream promise.
StartRequest(op, pre, gid, g, h, isLite, subscribe, subLite, next) ==
    LET req == MapListenerRequest(subscribe, g, subLite, NewUid(nextUid))
        es == EnsureStream(nextUid + 1)
    IN /\ CanEnsureStream
       /\ calls' = calls \cup
            {[op |-> op, gid |-> gid, h |-> h, isLite |-> isLite,
              pc |-> IF subscribe THEN "w_sub" ELSE "w_unsub",
              req |-> req, stream |-> es.sp, seq |-> 2 * nextUid, next |-> next,
              sum |-> Summary(op, pre, gid, h, isLite, << >>)]}
       /\ nextUid' = es.n
       /\ streamPromise' = es.sp
       /\ streams' = es.ss
       /\ pendingSubscriptions' = es.pend
       /\ wire' = es.w
       /\ unacked' = es.un
       /\ UNCHANGED lastCall

NoRequest(op, pre, gid, h, isLite) ==
    /\ lastCall' = Summary(op, pre, gid, h, isLite, << >>)
    /\ UNCHANGED <<calls, nextUid, streamPromise, streams, pendingSubscriptions,
                   wire, unacked>>

\* ListenerGroup.addListener on group gid, whose record before the call is
\* pre in the group table gs.
AddListener(gs, gid, h, isLite) ==
    LET pre == gs[gid]
        g1 == AddRecord(pre, h, isLite)
        need == RequireRegistrationRequest(g1, isLite)
        g2 == IF need THEN [g1 EXCEPT !.registeredIsLite = isLite] ELSE g1
    IN IF AlreadyRegistered(pre, h, isLite)
       THEN /\ groups' = gs
            /\ NoRequest("add", pre, gid, h, isLite)
       ELSE /\ groups' = [gs EXCEPT ![gid] = g2]
            /\ IF need
               THEN IF NeedsUnsubscribeFirst(g1)
                    THEN StartRequest("add", pre, gid, g2, h, isLite, FALSE, FALSE, "subscribe")
                    ELSE StartRequest("add", pre, gid, g2, h, isLite, TRUE, isLite, "return")
               ELSE NoRequest("add", pre, gid, h, isLite)

\* ListenerGroup.removeListener on group gid.
RemoveListener(gid, h) ==
    LET pre == groups[gid]
        wasLite == pre.listeners[ListenersGet(pre, h)].isLite
        g1 == [pre EXCEPT !.listeners = ListenersDelete(pre.listeners, h)]
        g2 == [g1 EXCEPT !.isLiteFalseCount = CountAfterRemove(g1, wasLite)]
    IN IF NeverRegistered(pre, h)
       THEN /\ UNCHANGED groups
            /\ NoRequest("remove", pre, gid, h, FALSE)
       ELSE IF Len(g1.listeners) = 0
            THEN /\ groups' = [groups EXCEPT ![gid] = g1]
                 /\ StartRequest("remove", pre, gid, g1, h, FALSE, FALSE, FALSE, "return")
            ELSE /\ groups' = [groups EXCEPT ![gid] = g2]
                 /\ IF NeedsDowngrade(wasLite, g2.isLiteFalseCount)
                    THEN StartRequest("remove", pre, gid, g2, h, FALSE, FALSE, FALSE, "subscribe")
                    ELSE NoRequest("remove", pre, gid, h, FALSE)

\* The order of insertion after handler h is added to group gid (0: a group
\* that is constructed by this call): a handler the group holds keeps its
\* place, another one is the last.
Inserted(gid, h) ==
    LET io == IF gid = 0 THEN Append(insertOrder, << >>) ELSE insertOrder
        at == IF gid = 0 THEN Len(io) ELSE gid
    IN [io EXCEPT ![at] = IF \E i \in 1..Len(@) : @[i] = h THEN @ ELSE Append(@, h)]

\* The order of insertion after handler h is removed from group gid (0: no
\* group).
Deleted(gid, h) ==
    IF gid = 0 THEN insertOrder
    ELSE [insertOrder EXCEPT ![gid] = SelectSeq(@, LAMBDA x : x # h)]

\* MapEventsManager.registerKeyListener(listener, key, isLite)
registerKeyListener(h, k, isLite) ==
    /\ MayCall
    /\ keyMap[k] # 0 \/ Len(groups) < MaxGroups
    /\ LET gid == IF keyMap[k] # 0 THEN keyMap[k] ELSE Len(groups) + 1
           gs == IF keyMap[k] # 0 THEN groups ELSE Append(groups, NewGroup("key", k))
       IN /\ keyMap' = [keyMap EXCEPT ![k] = gid]
          /\ AddListener(gs, gid, h, isLite)
    /\ registered' = [registered EXCEPT ![KeyT(k)][h] = LiteName(isLite)]
    /\ budget' = budget - 1
    /\ insertOrder' = Inserted(keyMap[k], h)
    /\ UNCHANGED <<markedForClose, filterMap, filterId2ListenerGroup, emitted,
                   lastDispatch, closed, serial, inbound,
                   cacheVars>>

\* MapEventsManager.removeKeyListener(listener, key)
removeKeyListener(h, k) ==
    /\ MayCall
    /\ IF keyMap[k] # 0
       THEN RemoveListener(keyMap[k], h)
       ELSE /\ lastCall' = [NoCall EXCEPT !.op = "remove", !.kind = "key",
                                          !.target = k, !.h = h,
                                          !.preApp = registered[KeyT(k)][h]]
            /\ UNCHANGED <<groups, calls, nextUid, streamPromise, streams,
                           pendingSubscriptions, wire, unacked>>
    /\ registered' = [registered EXCEPT ![KeyT(k)][h] = "none"]
    /\ insertOrder' = Deleted(keyMap[k], h)
    /\ budget' = budget - 1
    /\ UNCHANGED <<markedForClose, keyMap, filterMap, filterId2ListenerGroup,
                   emitted, lastDispatch, closed, serial, inbound,
                   cacheVars>>

\* mapFilter == null ? MapEventsManager.DEFAULT_FILTER : mapFilter
FilterOrDefault(mapFilter) ==
    IF mapFilter = NullFilter THEN DEFAULT_FILTER ELSE mapFilter

\* MapEventsManager.registerFilterListener(listener, mapFilter, isLite)
registerFilterListener(h, mapFilter, isLite) ==
  LET f == FilterOrDefault(mapFilter) IN
    /\ MayCall
    /\ filterMap[f] # 0 \/ Len(groups) < MaxGroups
    /\ LET gid == IF filterMap[f] # 0 THEN filterMap[f] ELSE Len(groups) + 1
           gs == IF filterMap[f] # 0 THEN groups
                 ELSE Append(groups, NewGroup("filter", f))
       IN /\ filterMap' = [filterMap EXCEPT ![f] = gid]
          /\ AddListener(gs, gid, h, isLite)
    /\ registered' = [registered EXCEPT ![FilterT(f)][h] = LiteName(isLite)]
    /\ budget' = budget - 1
    /\ insertOrder' = Inserted(filterMap[f], h)
    /\ UNCHANGED <<markedForClose, keyMap, filterId2ListenerGroup, emitted,
                   lastDispatch, closed, serial, inbound,
                   cacheVars>>

\* MapEventsManager.removeFilterListener(listener, mapFilter)
removeFilterListener(h, mapFilter) ==
  LET f == FilterOrDefault(mapFilter) IN
    /\ MayCall
    /\ IF filterMap[f] # 0
       THEN RemoveListener(filterMap[f], h)
       ELSE /\ lastCall' = [NoCall EXCEPT !.op = "remove", !.kind = "filter",
                                          !.target = f, !.h = h,
                                          !.preApp = registered[FilterT(f)][h]]
            /\ UNCHANGED <<groups, calls, nextUid, streamPromise, streams,
                           pendingSubscriptions, wire, unacked>>
    /\ registered' = [registered EXCEPT ![FilterT(f)][h] = "none"]
    /\ insertOrder' = Deleted(filterMap[f], h)
    /\ budget' = budget - 1
    /\ UNCHANGED <<markedForClose, keyMap, filterMap, filterId2ListenerGroup,
                   emitted, lastDispatch, closed, serial, inbound,
                   cacheVars>>

\* writeRequest, the continuation that runs once the stream promise has
\* resolved: the callback is registered, then the request is written.
writeRequest(c) ==
    /\ c.pc \in {"w_unsub", "w_sub"}
    /\ PromiseResolved(c.stream)
    /\ FirstWaiting(c)
    /\ pendingSubscriptions' = pendingSubscriptions \cup
            {[uid |-> c.req.uid, owner |-> "call", stream |-> c.stream]}
    /\ wire' = Append(wire, [req |-> c.req, stream |-> c.stream])
    /\ unacked' = IF streams[c.stream].st = "open"
                  THEN unacked \cup {[uid |-> c.req.uid, stream |-> c.stream]}
                  ELSE unacked
    /\ calls' = (calls \ {c}) \cup
            {[c EXCEPT !.pc = IF c.pc = "w_sub" THEN "a_sub" ELSE "a_unsub",
                       !.sum.wrote = Append(@, [type |-> c.req.type, lite |-> c.req.lite])]}
    /\ UNCHANGED <<streamPromise, streams, markedForClose, keyMap, filterMap,
                   filterId2ListenerGroup, groups, nextUid, emitted, lastDispatch,
                   registered, lastCall, closed, budget, serial, inbound, insertOrder,
                   cacheVars>>

\* What the callback registered for uid does when it is called without an
\* error: it resolves the promise of its owner.
Resolve(cs, uid) ==
    {IF c.pc \in {"a_sub", "a_unsub"} /\ c.req.uid = uid
     THEN [c EXCEPT !.pc = IF c.pc = "a_sub" THEN "p_sub" ELSE "p_unsub"]
     ELSE c : c \in cs}

\* handleResponse, cases SUBSCRIBED and UNSUBSCRIBED: the server answers a
\* request written to an open stream.
handleResponseAck(u) ==
    /\ u \in unacked
    /\ streams[u.stream].st = "open"
    /\ ~MicrotaskPending
    /\ unacked' = unacked \ {u}
    /\ pendingSubscriptions' = {p \in pendingSubscriptions : p.uid # u.uid}
    /\ IF \E p \in pendingSubscriptions : p.uid = u.uid
       THEN LET p == CHOOSE q \in pendingSubscriptions : q.uid = u.uid
            IN IF p.owner = "init"
               THEN /\ streams' = [streams EXCEPT ![p.stream].init = "acked"]
                    /\ UNCHANGED calls
               ELSE /\ calls' = Resolve(calls, u.uid)
                    /\ UNCHANGED streams
       ELSE UNCHANGED <<streams, calls>>
    /\ UNCHANGED <<streamPromise, markedForClose, keyMap, filterMap,
                   filterId2ListenerGroup, groups, nextUid, wire, emitted,
                   lastDispatch, registered, lastCall, closed, budget, serial, inbound, insertOrder,
                   cacheVars>>

\* A key index that keeps the entry of a group that was unsubscribed.
KeyGroupKept(km, k) == km

\* KeyListenerGroup.postUnsubscribe -> keyGroupUnsubscribed(key)
KeyGroupUnsubscribed(km, k) == [km EXCEPT ![k] = 0]

\* FilterListenerGroup.postUnsubscribe -> filterGroupUnsubscribed(id, filter)
FilterIdUnsubscribed(fi, id) == [fi EXCEPT ![id] = 0]

FilterUnsubscribed(fm, f) == [fm EXCEPT ![f] = 0]

\* filterGroupSubscribed(filterId, group)
FilterGroupSubscribed(fi, id, gid) == [fi EXCEPT ![id] = gid]

\* doUnsubscribe after the ack: postUnsubscribe(request); then the caller
\* goes on, to doSubscribe or to its end.
postUnsubscribe(c) ==
    /\ c.pc = "p_unsub"
    /\ IF c.req.kind = "key"
       THEN /\ keyMap' = KeyGroupUnsubscribed(keyMap, c.req.target)
            /\ UNCHANGED <<filterMap, filterId2ListenerGroup>>
       ELSE /\ filterId2ListenerGroup' =
                    FilterIdUnsubscribed(filterId2ListenerGroup, c.req.filterId)
            /\ filterMap' = FilterUnsubscribed(filterMap, c.req.target)
            /\ UNCHANGED keyMap
    /\ IF c.next = "subscribe"
       THEN LET subLite == IF c.op = "add" THEN c.isLite ELSE TRUE
                req == MapListenerRequest(TRUE, groups[c.gid], subLite, NewUid(nextUid))
                es == EnsureStream(nextUid + 1)
            IN /\ CanEnsureStream
               /\ calls' = (calls \ {c}) \cup
                    {[c EXCEPT !.pc = "w_sub", !.req = req, !.stream = es.sp,
                               !.seq = 2 * nextUid, !.next = "return"]}
               /\ nextUid' = es.n
               /\ streamPromise' = es.sp
               /\ streams' = es.ss
               /\ pendingSubscriptions' = es.pend
               /\ wire' = es.w
               /\ unacked' = es.un
               /\ UNCHANGED lastCall
       ELSE /\ calls' = calls \ {c}
            /\ lastCall' = c.sum
            /\ UNCHANGED <<nextUid, streamPromise, streams, pendingSubscriptions,
                           wire, unacked>>
    /\ UNCHANGED <<markedForClose, groups, emitted, lastDispatch, registered,
                   closed, budget, serial, inbound, insertOrder,
                   cacheVars>>

\* doSubscribe after the ack: postSubscribe(request); the call returns.
postSubscribe(c) ==
    /\ c.pc = "p_sub"
    /\ filterId2ListenerGroup' =
            IF c.req.kind = "filter"
            THEN FilterGroupSubscribed(filterId2ListenerGroup, c.req.filterId, c.gid)
            ELSE filterId2ListenerGroup
    /\ calls' = calls \ {c}
    /\ lastCall' = c.sum
    /\ UNCHANGED <<streamPromise, streams, markedForClose, pendingSubscriptions,
                   keyMap, filterMap, groups, nextUid, wire, unacked, emitted,
                   lastDispatch, registered, closed, budget, serial, inbound, insertOrder,
                   cacheVars>>

\* closeEventStream up to "await self.streamPromise"; a call that finds the
\* manager marked for close, or no stream promise, returns at once.
closeEventStream ==
    /\ MayCall
    /\ IF ~markedForClose /\ streamPromise # 0
       THEN /\ markedForClose' = TRUE
            /\ calls' = calls \cup
                 {[op |-> "close", gid |-> 0, h |-> "none", isLite |-> FALSE,
                   pc |-> "c_await", req |-> MapEventSubscribe(0),
                   stream |-> streamPromise, seq |-> 2 * nextUid - 1,
                   next |-> "return", sum |-> NoCall]}
            /\ UNCHANGED closed
       ELSE /\ closed' = closed + 1
            /\ UNCHANGED <<markedForClose, calls>>
    /\ budget' = budget - 1
    /\ UNCHANGED <<streamPromise, streams, pendingSubscriptions, keyMap, filterMap,
                   filterId2ListenerGroup, groups, nextUid, wire, unacked, emitted,
                   lastDispatch, registered, lastCall, serial, inbound, insertOrder,
                   cacheVars>>

\* closeEventStream once the stream promise has resolved: it installs its
\* 'error' handler and calls bidiStream.cancel().  A stream that is open
\* reports the cancellation later, as an 'error' event; no response is
\* delivered on a cancelled stream.
cancelStream(c) ==
    /\ c.pc = "c_await"
    /\ PromiseResolved(c.stream)
    /\ FirstWaiting(c)
    /\ streams' = [streams EXCEPT ![c.stream].st =
                        IF @ = "open" THEN "cancelling" ELSE @]
    /\ unacked' = {u \in unacked : u.stream # c.stream}
    /\ calls' = (calls \ {c}) \cup {[c EXCEPT !.pc = "c_wait"]}
    /\ UNCHANGED <<streamPromise, markedForClose, pendingSubscriptions, keyMap,
                   filterMap, filterId2ListenerGroup, groups, nextUid, wire,
                   emitted, lastDispatch, registered, lastCall, closed, budget,
                   serial, inbound, insertOrder,
                   cacheVars>>

\* An emitter that is told of every stream event.
Emit(em, what) == Append(em, what)

\* MapEventsManager.onError / onEnd / onCancel: what the emitter has emitted
\* after the handler ran.
Notify(em, what) == IF ~markedForClose THEN Append(em, what) ELSE em

\* The 'error' event of stream s: the transport failed (the stream was
\* open), or the stream reports the cancellation asked for by
\* closeEventStream, whose own handler then clears the stream promise and
\* lets the call return.
onError(s) ==
    /\ streams[s].st \in {"open", "cancelling"}
    /\ ~MicrotaskPending
    /\ emitted' = Notify(emitted, "error")
    /\ unacked' = {u \in unacked : u.stream # s}
    /\ IF streams[s].st = "cancelling"
       THEN /\ streams' = [streams EXCEPT ![s].st = "cancelled"]
            /\ LET waiting == {c \in calls : c.pc = "c_wait" /\ c.stream = s}
               IN /\ calls' = calls \ waiting
                  /\ closed' = closed + Cardinality(waiting)
                  /\ streamPromise' = IF waiting # {} THEN 0 ELSE streamPromise
       ELSE /\ streams' = [streams EXCEPT ![s].st = "failed"]
            /\ UNCHANGED <<calls, closed, streamPromise>>
    /\ UNCHANGED <<markedForClose, pendingSubscriptions, keyMap, filterMap,
                   filterId2ListenerGroup, groups, nextUid, wire, lastDispatch,
                   registered, lastCall, budget, serial, inbound, insertOrder,
                   cacheVars>>

\* The 'end' event of stream s: the server ended the stream.
onEnd(s) ==
    /\ streams[s].st = "open"
    /\ ~MicrotaskPending
    /\ emitted' = Notify(emitted, "error")
    /\ streams' = [streams EXCEPT ![s].st = "ended"]
    /\ unacked' = {u \in unacked : u.stream # s}
    /\ UNCHANGED <<streamPromise, markedForClose, pendingSubscriptions, keyMap,
                   filterMap, filterId2ListenerGroup, groups, calls, nextUid, wire,
                   lastDispatch, registered, lastCall, closed, budget, serial, inbound, insertOrder,
                   cacheVars>>

\* The 'cancelled' event of stream s: the stream was cancelled by the other
\* side, and delivers nothing more.
onCancel(s) ==
    /\ streams[s].st = "open"
    /\ ~MicrotaskPending
    /\ emitted' = Notify(emitted, "error")
    /\ streams' = [streams EXCEPT ![s].st = "aborted"]
    /\ unacked' = {u \in unacked : u.stream # s}
    /\ UNCHANGED <<streamPromise, markedForClose, pendingSubscriptions, keyMap,
                   filterMap, filterId2ListenerGroup, groups, calls, nextUid, wire,
                   lastDispatch, registered, lastCall, closed, budget, serial,
                   inbound, insertOrder,
                   cacheVars>>

\* ListenerGroup.notifyListeners(mapEvent): one call per record, in the
\* order of the listeners map, to the sink of the event's id.
NotifyListeners(gid, id) ==
    [i \in 1..Len(groups[gid].listeners) |->
        [gid |-> gid, h |-> groups[gid].listeners[i].h, sink |-> id]]

\* handleResponse, case EVENT: the groups of the event's filter ids, in the
\* order of the list, then the group of the event's key.
RECURSIVE DispatchFilters(_, _)
DispatchFilters(ids, id) ==
    IF ids = << >> THEN << >>
    ELSE (IF filterId2ListenerGroup[Head(ids)] # 0
          THEN NotifyListeners(filterId2ListenerGroup[Head(ids)], id)
          ELSE << >>) \o DispatchFilters(Tail(ids), id)

\* A dispatch that goes to the key group only when no filter id is known.
DispatchKeyUnlessFilter(k, id) ==
    IF k \in Keys /\ keyMap[k] # 0 /\ \A i \in FilterIds : filterId2ListenerGroup[i] = 0
    THEN NotifyListeners(keyMap[k], id)
    ELSE << >>

DispatchKey(k, id) ==
    IF k \in Keys /\ keyMap[k] # 0 THEN NotifyListeners(keyMap[k], id) ELSE << >>

\* The keys and filter id lists of the events the server sends.
EventKeys == Keys \cup {"k0"}
EventFilterIds == {<< >>, <<7>>, <<7, 9>>}

\* this.mapName
MapName == "map"

\* The cache names of the lifecycle responses the server sends.
CacheNames == {MapName, "other"}

\* handleResponse, case EVENT: the handler invocations, in order.
Dispatch(k, ids, id) == DispatchFilters(ids, id) \o DispatchKey(k, id)

\* The responses handled, after one more: kept when inbound.on.
Keep(r) == IF inbound.on THEN [inbound EXCEPT !.log = Append(@, r)] ELSE inbound

MayHandle == inbound.on => Len(inbound.log) < MaxInbound

handleResponseEvent(s, k, ids, id) ==
    /\ streams[s].st = "open"
    /\ ~MicrotaskPending
    /\ MayHandle
    /\ lastDispatch' = [key |-> k, filterIds |-> {ids[i] : i \in 1..Len(ids)},
                        id |-> id, calls |-> Dispatch(k, ids, id), threw |-> "none"]
    /\ inbound' = Keep([type |-> "EVENT", cache |-> MapName,
                        calls |-> Dispatch(k, ids, id)])
    /\ UNCHANGED <<streamPromise, streams, markedForClose, pendingSubscriptions,
                   keyMap, filterMap, filterId2ListenerGroup, groups, calls,
                   nextUid, wire, unacked, emitted, registered, lastCall, closed,
                   budget, serial, insertOrder,
                   cacheVars>>

\* The invocations made when handler t throws: notifyListeners and
\* handleResponse catch nothing, so the exception leaves both loops and the
\* invocations after that of t are not made.
UpToThrow(cs, t) ==
    IF \E i \in 1..Len(cs) : cs[i].h = t
    THEN SubSeq(cs, 1, CHOOSE i \in 1..Len(cs) :
                            cs[i].h = t /\ \A j \in 1..(i - 1) : cs[j].h # t)
    ELSE cs

\* handleResponse, case EVENT, when handler t throws on being invoked.
handleResponseEventThrows(s, k, ids, id, t) ==
    /\ streams[s].st = "open"
    /\ ~MicrotaskPending
    /\ MayHandle
    /\ \E i \in 1..Len(Dispatch(k, ids, id)) : Dispatch(k, ids, id)[i].h = t
    /\ lastDispatch' = [key |-> k, filterIds |-> {ids[i] : i \in 1..Len(ids)},
                        id |-> id, calls |-> UpToThrow(Dispatch(k, ids, id), t),
                        threw |-> t]
    /\ inbound' = Keep([type |-> "EVENT", cache |-> MapName,
                        calls |-> UpToThrow(Dispatch(k, ids, id), t)])
    /\ UNCHANGED <<streamPromise, streams, markedForClose, pendingSubscriptions,
                   keyMap, filterMap, filterId2ListenerGroup, groups, calls,
                   nextUid, wire, unacked, emitted, registered, lastCall, closed,
                   budget, serial, insertOrder,
                   cacheVars>>

\* An emitter that is told of the lifecycle events of every cache.
LifecycleOfAny(em, type, cache) == Append(em, type)

\* handleResponse, cases DESTROYED and TRUNCATED: the emitter is told when
\* the response names this map.
Lifecycle(em, type, cache) == IF cache = MapName THEN Append(em, type) ELSE em

handleResponseLifecycle(s, type, cache) ==
    /\ streams[s].st = "open"
    /\ ~MicrotaskPending
    /\ MayHandle
    /\ emitted' = Lifecycle(emitted, type, cache)
    /\ inbound' = Keep([type |-> type, cache |-> cache, calls |-> << >>])
    /\ UNCHANGED <<streamPromise, streams, markedForClose, pendingSubscriptions,
                   keyMap, filterMap, filterId2ListenerGroup, groups, calls,
                   nextUid, wire, unacked, lastDispatch, registered, lastCall,
                   closed, budget, serial, insertOrder,
                   cacheVars>>

\* The server never answers request u: writeRequest sets no timer, so
\* nothing runs in the client when the time allowed for the answer is over.
neverAnswered(u) ==
    /\ u \in unacked
    /\ streams[u.stream].st = "open"
    /\ unacked' = unacked \ {u}
    /\ UNCHANGED <<streamPromise, streams, markedForClose, pendingSubscriptions,
                   keyMap, filterMap, filterId2ListenerGroup, groups, calls,
                   nextUid, wire, emitted, lastDispatch, registered, lastCall,
                   closed, budget, serial, inbound, insertOrder,
                   cacheVars>>

Next ==
    \/ \E h \in Handlers, k \in Keys, isLite \in BOOLEAN : registerKeyListener(h, k, isLite)
    \/ \E h \in Handlers, k \in Keys : removeKeyListener(h, k)
    \/ \E h \in Handlers, f \in Filters, isLite \in BOOLEAN : registerFilterListener(h, f, isLite)
    \/ \E h \in Handlers, f \in Filters : removeFilterListener(h, f)
    \/ \E c \in calls : writeRequest(c)
    \/ \E u \in unacked : handleResponseAck(u)
    \/ \E c \in calls : postUnsubscribe(c)
    \/ \E c \in calls : postSubscribe(c)
    \/ closeEventStream
    \/ \E c \in calls : cancelStream(c)
    \/ \E s \in 1..MaxStreams : onError(s)
    \/ \E s \in 1..MaxStreams : onEnd(s)
    \/ \E s \in 1..MaxStreams : onCancel(s)

\* The same steps, with the server sending events.
NextEvents ==
    \/ Next
    \/ \E s \in 1..MaxStreams, k \in EventKeys, ids \in EventFilterIds, id \in EventIds :
            handleResponseEvent(s, k, ids, id)

Spec == Init /\ [][Next]_vars

SpecSerial == InitSerial /\ [][Next]_vars

SpecEvents == InitEvents /\ [][NextEvents]_vars

\* Events whose handlers may throw.
NextThrows ==
    \/ NextEvents
    \/ \E s \in 1..MaxStreams, k \in EventKeys, ids \in EventFilterIds,
          id \in EventIds, t \in Handlers : handleResponseEventThrows(s, k, ids, id, t)

SpecThrows == InitEvents /\ [][NextThrows]_vars

\* The events of one kind, kept in the order of their arrival.
NextOrder ==
    \/ Next
    \/ \E s \in 1..MaxStreams, k \in EventKeys, ids \in EventFilterIds :
            handleResponseEvent(s, k, ids, "updated")

SpecOrder == InitKept /\ [][NextOrder]_vars

\* The lifecycle responses, kept in the order of their arrival.
NextLifecycle ==
    \/ Next
    \/ \E s \in 1..MaxStreams, type \in {"DESTROYED", "TRUNCATED"}, cache \in CacheNames :
            handleResponseLifecycle(s, type, cache)

SpecLifecycle == InitKept /\ [][NextLifecycle]_vars

\* A server that leaves requests without an answer.
NextTimeout ==
    \/ Next
    \/ \E u \in unacked : neverAnswered(u)

SpecTimeout == InitEvents /\ [][NextTimeout]_vars

\* Events while the application makes MaxCalls calls, one after the other.
SpecRace == InitRace /\ [][NextEvents]_vars

\* ----------------------------------------------------------------- claims

\* No call is in progress: every call the application made has completed.
Quiescent == calls = {}

AllLite(g) == \A i \in 1..Len(g.listeners) : g.listeners[i].isLite

\* The groups held in keyMap or filterMap.
IndexedGroups == ({keyMap[k] : k \in Keys} \cup {filterMap[f] : f \in FilterKeys}) \ {0}

PendingUids == {p.uid : p \in pendingSubscriptions}

\* C1 (detail-level invariant): once the calls made have completed, every
\* group held in keyMap or filterMap has registeredIsLite true exactly when
\* all its records are lite, and exactly when isLiteFalseCount is 0.
C1_DetailLevel ==
    Quiescent =>
        \A gid \in IndexedGroups :
            /\ groups[gid].registeredIsLite = AllLite(groups[gid])
            /\ groups[gid].registeredIsLite = (groups[gid].isLiteFalseCount = 0)

\* C2 (index reachability): once the calls made have completed, every group
\* that holds a record is the entry of its key in keyMap, or of its filter
\* in filterMap and of its filter id in filterId2ListenerGroup.
C2_IndexReachability ==
    Quiescent =>
        \A gid \in 1..Len(groups) :
            Len(groups[gid].listeners) > 0 =>
                IF groups[gid].kind = "key"
                THEN keyMap[groups[gid].target] = gid
                ELSE /\ filterMap[groups[gid].target] = gid
                     /\ filterId2ListenerGroup[FilterIdOf(groups[gid].target)] = gid

\* How often the event d invoked handler h through a key group of its key.
KeyGroupCalls(d, h) ==
    Cardinality({i \in 1..Len(d.calls) :
        /\ d.calls[i].h = h
        /\ d.calls[i].sink = d.id
        /\ groups[d.calls[i].gid].kind = "key"
        /\ groups[d.calls[i].gid].target = d.key})

\* C3 (key event delivery): an EVENT for key k that arrives when the calls
\* made have completed invokes the sink of the event's id exactly once, through
\* the key group, on every handler registered on k and not removed; and a
\* key registration creates no filter group.
C3_KeyEventDelivery ==
    [][/\ (lastDispatch' # lastDispatch /\ lastDispatch'.key \in Keys /\ Quiescent) =>
            \A h \in Handlers :
                registered[KeyT(lastDispatch'.key)][h] # "none" =>
                    KeyGroupCalls(lastDispatch', h) = 1
       /\ (Len(groups') > Len(groups) /\ filterMap' = filterMap) =>
            groups'[Len(groups')].kind = "key"]_vars

Unsub == [type |-> "UNSUBSCRIBE", lite |-> FALSE]
Sub(isLite) == [type |-> "SUBSCRIBE", lite |-> isLite]

Present(ls, h) == \E i \in 1..Len(ls) : ls[i].h = h

\* C4 (detail-level upgrade): a completed addListener with lite = false on
\* a group whose records were all lite has written exactly UNSUBSCRIBE, then
\* SUBSCRIBE with lite = false, and the group holds the old and the new
\* handlers.
C4_Upgrade ==
    (/\ Quiescent
     /\ lastCall.op = "add"
     /\ ~lastCall.isLite
     /\ Len(lastCall.preListeners) > 0
     /\ \A i \in 1..Len(lastCall.preListeners) : lastCall.preListeners[i].isLite)
    => /\ lastCall.wrote = <<Unsub, Sub(FALSE)>>
       /\ Present(groups[lastCall.gid].listeners, lastCall.h)
       /\ \A i \in 1..Len(lastCall.preListeners) :
            Present(groups[lastCall.gid].listeners, lastCall.preListeners[i].h)

\* The call removed the last non-lite record and left a lite one.
RemovedLastNonLite(c) ==
    /\ c.op = "remove"
    /\ \E i \in 1..Len(c.preListeners) :
            c.preListeners[i].h = c.h /\ ~c.preListeners[i].isLite
    /\ \A i \in 1..Len(c.preListeners) :
            c.preListeners[i].h # c.h => c.preListeners[i].isLite
    /\ Len(c.preListeners) > 1

\* C5 (detail-level downgrade): a completed removeListener that removed the
\* last non-lite record of a group that keeps a lite record has written
\* UNSUBSCRIBE, then SUBSCRIBE with lite = true; and a removeListener that
\* leaves a record writes requests only in that case.
C5_Downgrade ==
    (Quiescent /\ lastCall.op = "remove" /\ Len(lastCall.preListeners) > 1) =>
        /\ RemovedLastNonLite(lastCall) => lastCall.wrote = <<Unsub, Sub(TRUE)>>
        /\ lastCall.wrote # << >> =>
                RemovedLastNonLite(lastCall) /\ ~lastCall.preRegisteredIsLite

\* C6 (idempotent subscription): a completed addListener(h, target, lite)
\* made when h was registered on the target with the same lite flag, and not
\* removed, has written no request.
C6_Idempotent ==
    (/\ Quiescent
     /\ lastCall.op = "add"
     /\ lastCall.preApp = LiteName(lastCall.isLite))
    => lastCall.wrote = << >>

\* The requests of group gid written and not yet answered.
Outstanding(gid) == {c \in calls : c.gid = gid /\ c.pc \in {"a_sub", "a_unsub"}}

\* C7 (per-group serialization): a group never has two subscription
\* requests written and not yet acknowledged.
C7_OneOutstanding ==
    \A gid \in 1..Len(groups) : Cardinality(Outstanding(gid)) <= 1

\* An ack or an error has been delivered for the written request w: its
\* stream is open and the server has answered it, or the stream has
\* delivered an 'error' event.
Delivered(w) ==
    \/ streams[w.stream].st = "open" /\ ~(\E u \in unacked : u.uid = w.req.uid)
    \/ streams[w.stream].st \in {"failed", "cancelled"}

\* C8 (pending-ack correlation): a request written to the stream has an
\* entry in pendingSubscriptions exactly when no ack and no error has been
\* delivered for it.
C8_PendingIffUndelivered ==
    \A i \in 1..Len(wire) :
        streams[wire[i].stream].st \in {"open", "failed", "cancelled"} =>
            ((wire[i].req.uid \in PendingUids) <=> ~Delivered(wire[i]))

\* closeEventStream has cancelled the stream and returned, and no stream has
\* been opened since.
AfterClose == streamPromise = 0

\* C9 (after close): once closeEventStream has completed,
\* pendingSubscriptions is empty and the stream is cancelled.
C9_AfterClose ==
    AfterClose =>
        /\ pendingSubscriptions = {}
        /\ \A s \in 1..MaxStreams : streams[s].st \in {"unopened", "cancelled"}

\* C10 (close with a pending ack): once closeEventStream has completed, no
\* caller still waits for the ack of a request written to the cancelled
\* stream (its promise was rejected), the stream is cancelled and nothing
\* was emitted on the map's error channel.
C10_CloseRejectsPending ==
    AfterClose =>
        /\ ~(\E c \in calls : c.pc \in {"a_sub", "a_unsub"}
                              /\ streams[c.stream].st = "cancelled")
        /\ \A s \in 1..MaxStreams : streams[s].st \in {"unopened", "cancelled"}
        /\ emitted = << >>

\* ------------------------------------------------------- stream lifecycle

\* The states of a stream that delivers nothing more.
Over == {"failed", "ended", "aborted", "cancelled"}

\* Stream s reports its end, an error or a cancellation in this step.
Reports(s) == streams[s].st \notin Over /\ streams'[s].st \in Over

\* C11 (silence while closing): a stream's end, error or cancellation is
\* emitted as one 'error' on the map's emitter when the manager is not marked
\* for close, and emits nothing when it is; no stream is opened in the step
\* and the stream promise is left as it is or cleared.
C11_SilentWhenClosing ==
    [][\A s \in 1..MaxStreams :
         Reports(s) =>
            /\ emitted' = IF markedForClose THEN emitted ELSE Append(emitted, "error")
            /\ \A t \in 1..MaxStreams : StreamCreated(t)' => StreamCreated(t)
            /\ streamPromise' \in {streamPromise, 0}
            /\ wire' = wire]_vars

\* C11: a stream failed, ended or was cancelled by the other side while the
\* manager was marked for close, and nothing was emitted.
C11_Witness ==
    /\ markedForClose
    /\ emitted = << >>
    /\ \E s \in 1..MaxStreams : streams[s].st \in {"failed", "ended", "aborted"}

\* The requests written to stream s, in order.
WrittenTo(s) == SelectSeq(wire, LAMBDA w : w.stream = s)

\* C12 (INIT gating): the first request written to a stream is INIT, and a
\* SUBSCRIBE or UNSUBSCRIBE is on a stream only when the server's answer to
\* that stream's INIT has been received.
C12_InitGating ==
    \A s \in 1..MaxStreams :
        /\ WrittenTo(s) # << >> => WrittenTo(s)[1].req.type = "INIT"
        /\ \A i \in 1..Len(WrittenTo(s)) :
              WrittenTo(s)[i].req.type \in {"SUBSCRIBE", "UNSUBSCRIBE"} =>
                  streams[s].init = "acked"

\* C12: a SUBSCRIBE was written after the INIT of its stream.
C12_Witness ==
    \E s \in 1..MaxStreams :
        /\ Len(WrittenTo(s)) >= 2
        /\ WrittenTo(s)[1].req.type = "INIT"
        /\ WrittenTo(s)[2].req.type = "SUBSCRIBE"

\* The positions in wire of the INIT requests.
InitsWritten == {i \in 1..Len(wire) : wire[i].req.type = "INIT"}

\* C13 (one duplex stream): whatever calls the application makes, the
\* manager creates at most one stream and writes at most one INIT request.
C13_OneStream ==
    /\ Cardinality({s \in 1..MaxStreams : StreamCreated(s)}) <= 1
    /\ Cardinality(InitsWritten) <= 1

\* No register call was made yet: a register call that finds no group for its
\* key or filter constructs one.
NoRegisterCallYet == groups = << >>

\* C14 (lazy stream creation): before the first register call no stream is
\* created and no INIT is written.
C14_LazyStream ==
    NoRegisterCallYet =>
        /\ \A s \in 1..MaxStreams : ~StreamCreated(s)
        /\ InitsWritten = {}

\* ------------------------------------------------------------------ events

\* The number of invocations of handler h through group gid in cs.
Invocations(cs, gid, h) ==
    Cardinality({i \in 1..Len(cs) : cs[i].gid = gid /\ cs[i].h = h})

\* The number of times an event with key k and filter ids fids reaches group
\* gid: once for each of the ids that filterId2ListenerGroup maps to the
\* group, and once when keyMap maps the key to it.
Reaches(k, fids, gid) ==
    Cardinality({i \in fids : filterId2ListenerGroup[i] = gid})
        + (IF k \in Keys /\ keyMap[k] = gid THEN 1 ELSE 0)

\* An EVENT response is handled in this step.
EventHandled == lastDispatch' # lastDispatch

\* C15 (event routing): an EVENT invokes every handler of a group once for
\* each of the event's filter ids that filterId2ListenerGroup maps to the
\* group and once more when keyMap maps the event's key to it, on the sink
\* of the event's id; ids and keys that map to no group invoke nothing.
C15_EventRouting ==
    [][EventHandled =>
        /\ \A gid \in 1..Len(groups), h \in Handlers :
              Invocations(lastDispatch'.calls, gid, h) =
                  IF Present(groups[gid].listeners, h)
                  THEN Reaches(lastDispatch'.key, lastDispatch'.filterIds, gid)
                  ELSE 0
        /\ \A i \in 1..Len(lastDispatch'.calls) :
              /\ lastDispatch'.calls[i].gid \in 1..Len(groups)
              /\ lastDispatch'.calls[i].sink = lastDispatch'.id]_vars

\* C15: one event, carrying a known and an unknown filter id, invoked a
\* handler through the filter group and then a handler through the key group.
C15_Witness ==
    /\ lastDispatch.filterIds = {7, 9}
    /\ Len(lastDispatch.calls) = 2
    /\ groups[lastDispatch.calls[1].gid].kind = "filter"
    /\ groups[lastDispatch.calls[2].gid].kind = "key"

\* The handlers invoked through group gid in cs, in the order of invocation.
HandlersOf(cs, gid) ==
    LET own == SelectSeq(cs, LAMBDA c : c.gid = gid)
    IN [i \in 1..Len(own) |-> own[i].h]

\* A response is handled in this step, in a run that keeps them.
Arrives == Len(inbound'.log) = Len(inbound.log) + 1

\* C16 (event ordering): the handlers of a group see the events in the order
\* of their arrival, since the invocations of an event are all made when it
\* arrives, after those of the events that arrived before it; and an event
\* that reaches a group invokes the group's handlers in the order in which
\* they were added to the group.
C16_EventOrdering ==
    [][Arrives =>
        /\ SubSeq(inbound'.log, 1, Len(inbound.log)) = inbound.log
        /\ \A gid \in 1..Len(groups) :
              HandlersOf(inbound'.log[Len(inbound'.log)].calls, gid)
                  \in {<< >>, insertOrder[gid]}]_vars

\* C16: two events have arrived, and each invoked h2 and then h1, the order
\* in which the two handlers were added to their group.
C16_Witness ==
    /\ Len(inbound.log) = 2
    /\ \A n \in 1..2 :
          /\ Len(inbound.log[n].calls) = 2
          /\ inbound.log[n].calls[1].h = "h2"
          /\ inbound.log[n].calls[2].h = "h1"
          /\ inbound.log[n].calls[1].gid = inbound.log[n].calls[2].gid

\* C17 (handler fault isolation): when a handler throws on being invoked for
\* an EVENT, every other handler of every group the event reaches is still
\* invoked, once for each of the event's filter ids and once for its key.
C17_FaultIsolation ==
    [][EventHandled =>
        \A gid \in 1..Len(groups), h \in Handlers \ {lastDispatch'.threw} :
            Present(groups[gid].listeners, h) =>
                Invocations(lastDispatch'.calls, gid, h) =
                    Reaches(lastDispatch'.key, lastDispatch'.filterIds, gid)]_vars

\* The request at position i of wire was answered by the server.
Answered(i) ==
    /\ streams[wire[i].stream].st = "open"
    /\ \A u \in unacked : u.uid # wire[i].req.uid

\* The server holds a subscription for the target on an open stream: it
\* answered a SUBSCRIBE for it, and no UNSUBSCRIBE for it written later.
ServerSubscribed(kind, target) ==
    \E i \in 1..Len(wire) :
        /\ wire[i].req.type = "SUBSCRIBE"
        /\ wire[i].req.kind = kind /\ wire[i].req.target = target
        /\ Answered(i)
        /\ \A j \in (i + 1)..Len(wire) :
              ~(/\ wire[j].stream = wire[i].stream
                /\ wire[j].req.type = "UNSUBSCRIBE"
                /\ wire[j].req.kind = kind /\ wire[j].req.target = target
                /\ Answered(j))

\* The SUBSCRIBE that registers group gid, the one sent for the first
\* handler added to it, is not yet answered.
Registering(gid) ==
    \E c \in calls :
        /\ c.gid = gid /\ c.op = "add" /\ c.sum.preListeners = << >>
        /\ c.pc \in {"w_sub", "a_sub"}

\* C18 (effects only after the ack): an event the server sends for a
\* subscription it holds invokes no handler through a group whose
\* registering SUBSCRIBE is not yet answered; and filterId2ListenerGroup
\* maps a filter id to a group only once a SUBSCRIBE carrying that id was
\* answered and its callback called.
C18_AfterAck ==
    [][/\ \A id \in FilterIds :
             filterId2ListenerGroup'[id] # 0 =>
                 \E i \in 1..Len(wire') :
                     /\ wire'[i].req.type = "SUBSCRIBE"
                     /\ wire'[i].req.filterId = id
                     /\ wire'[i].req.uid \notin PendingUids'
       /\ EventHandled =>
             \A i \in 1..Len(lastDispatch'.calls) :
                 LET gid == lastDispatch'.calls[i].gid
                 IN ServerSubscribed(groups[gid].kind, groups[gid].target)
                        => ~Registering(gid)]_vars

\* The server is still to answer the request with correlation id uid.
AnswerToCome(uid) == \E u \in unacked : u.uid = uid

\* C19 (timeout): once the time allowed for the answer to a SUBSCRIBE or
\* UNSUBSCRIBE is over, the callback of the request is removed from
\* pendingSubscriptions and its caller stops waiting: on an open stream such
\* a callback is registered, and a call awaits, only for a request whose
\* answer is still to come.
C19_Timeout ==
    /\ \A p \in pendingSubscriptions :
          p.owner = "call" /\ streams[p.stream].st = "open" => AnswerToCome(p.uid)
    /\ \A c \in calls :
          c.pc \in {"a_sub", "a_unsub"} /\ streams[c.stream].st = "open"
              => AnswerToCome(c.req.uid)

\* The response handled in this step, in a run that keeps them.
Arrived == inbound'.log[Len(inbound'.log)]

\* C20 (lifecycle notifications): a DESTROYED or TRUNCATED response that
\* names this map emits that one lifecycle event on the map's emitter, one
\* that names another cache emits nothing, and neither changes keyMap,
\* filterMap, filterId2ListenerGroup, the groups or pendingSubscriptions.
C20_Lifecycle ==
    [][Arrives /\ Arrived.type \in {"DESTROYED", "TRUNCATED"} =>
        /\ emitted' = IF Arrived.cache = MapName
                      THEN Append(emitted, Arrived.type)
                      ELSE emitted
        /\ UNCHANGED <<keyMap, filterMap, filterId2ListenerGroup, groups,
                       pendingSubscriptions>>]_vars

\* C20: a DESTROYED response for another cache and a TRUNCATED response for
\* this map were handled while a callback was registered, and the emitter
\* was told of the second only.
C20_Witness ==
    /\ Len(inbound.log) = 2
    /\ inbound.log[1].type = "DESTROYED" /\ inbound.log[1].cache # MapName
    /\ inbound.log[2].type = "TRUNCATED" /\ inbound.log[2].cache = MapName
    /\ emitted = <<"TRUNCATED">>
    /\ pendingSubscriptions # {}
    /\ IndexedGroups # {}

\* ------------------------------------------------------------ PageAdvancer

\* The cookies the server hands out with the pages that have a successor.
CookieNames == <<"c1", "c2", "c3", "c4", "c5">>

\* The pages a server may hold: at least one, the last with an empty cookie.
PageSequences ==
    UNION {{[i \in 1..n |-> [cookie |-> IF i = n THEN EmptyCookie ELSE CookieNames[i],
                             entries |-> size[i]]]
              : size \in [1..n -> 0..MaxEntries]}
           : n \in 1..MaxPages}

\* The page the server streams for a page request: the first for a request
\* without cookie (an unset and an empty bytes field are the same on the
\* wire), else the successor of the page it gave the cookie with.
PageFor(c) ==
    IF c \in {NoCookie, EmptyCookie} THEN 1
    ELSE (CHOOSE i \in 1..Len(pages) : pages[i].cookie = c) + 1

\* The messages of page p as streamed for page request rpc: the cookie
\* envelope, then the entries.
Messages(p, rpc) ==
    [j \in 1..(pages[p].entries + 1) |->
        [cookie |-> IF j = 1 THEN pages[p].cookie ELSE EmptyCookie,
         page |-> p, idx |-> j - 1, rpc |-> rpc]]

\* helper.extractCookie(r)
ExtractCookie(r) == r.cookie

\* helper.handleEntry(r): the deserialized key, value or entry.
HandleEntry(r) == [of |-> r.page, item |-> r.idx, from |-> r.rpc]

NoValue == [of |-> 0, item |-> 0, from |-> 0]

\* An array read from its end.
Pop(d) == [value |-> d[Len(d)], rest |-> SubSeq(d, 1, Len(d) - 1)]

\* self.data.shift()
Shift(d) == [value |-> Head(d), rest |-> Tail(d)]

\* A page is never the last one.
NeverExhausted(c) == FALSE

\* loadNextPage, 'end': self.cookie == null || self.cookie.length == 0
Exhausted(c) == c = NoCookie \/ c = EmptyCookie

\* A page request that carries no cookie.
WithoutCookie(c) == NoCookie

\* loadNextPage: helper.loadNextPage(self.cookie)
RequestCookie(c) == c

\* A failed page load that leaves the messages received to next().
KeepReceived(d, received) == received

\* loadNextPage, 'error': reject(err); the messages received stay in the
\* local array, and self.data is as it was.
DataAfterError(d, received) == d

\* PageAdvancer.next() with self.data = d: an entry of the buffer, the end
\* of the sequence, or a page request (the call then waits for the page).
NextBody(d) ==
    IF Len(d) # 0
    THEN /\ yielded' = Append(yielded, [kind |-> "value",
                                        value |-> HandleEntry(Shift(d).value)])
         /\ data' = Shift(d).rest
         /\ pageCall' = NoPageCall
         /\ UNCHANGED requests
    ELSE IF exhausted
         THEN /\ yielded' = Append(yielded, [kind |-> "done", value |-> NoValue])
              /\ data' = d
              /\ pageCall' = NoPageCall
              /\ UNCHANGED requests
         ELSE /\ requests' = Append(requests, RequestCookie(cookie))
              /\ pageCall' = [pc |-> "loading", firstEntry |-> TRUE, data |-> << >>,
                              sent |-> 0, page |-> PageFor(RequestCookie(cookie)),
                              rpc |-> Len(requests) + 1]
              /\ data' = d
              /\ UNCHANGED yielded

\* The consumer calls next(), once its previous call has returned.
next ==
    /\ pageCall.pc = "idle"
    /\ Len(yielded) < MaxNext
    /\ NextBody(data)
    /\ UNCHANGED <<exhausted, cookie, pages, setCalls, sessionVars, managerVars, entryVars>>

\* loadNextPage, 'data': the first message of the page is the cookie
\* envelope, the others are kept in the local array.
onPageData ==
    /\ pageCall.pc = "loading"
    /\ pageCall.sent < Len(Messages(pageCall.page, pageCall.rpc))
    /\ LET r == Messages(pageCall.page, pageCall.rpc)[pageCall.sent + 1]
       IN IF pageCall.firstEntry
          THEN /\ cookie' = ExtractCookie(r)
               /\ pageCall' = [pageCall EXCEPT !.firstEntry = FALSE, !.sent = @ + 1]
          ELSE /\ pageCall' = [pageCall EXCEPT !.data = Append(@, r), !.sent = @ + 1]
               /\ UNCHANGED cookie
    /\ UNCHANGED <<exhausted, data, pages, requests, yielded, setCalls, sessionVars,
                   managerVars, entryVars>>

\* loadNextPage, 'end': the page is complete; resolve(data).
onPageEnd ==
    /\ pageCall.pc = "loading"
    /\ pageCall.sent = Len(Messages(pageCall.page, pageCall.rpc))
    /\ exhausted' = Exhausted(cookie)
    /\ pageCall' = [pageCall EXCEPT !.pc = "resolved"]
    /\ UNCHANGED <<data, cookie, pages, requests, yielded, setCalls, sessionVars,
                   managerVars, entryVars>>

\* next() after the await: self.data = <the page>; return self.next()
nextAfterPage ==
    /\ pageCall.pc = "resolved"
    /\ NextBody(pageCall.data)
    /\ UNCHANGED <<exhausted, cookie, pages, setCalls, sessionVars, managerVars, entryVars>>

\* The error the stream of a page request reports: it names the page, the
\* number of messages that arrived before it, and the request.
ErrorOf(call) == [of |-> call.page, item |-> call.sent, from |-> call.rpc]

\* loadNextPage, 'error': reject(err); the pending next() fails with err.
onPageError ==
    /\ pageCall.pc = "loading"
    /\ Len(SelectSeq(yielded, LAMBDA y : y.kind = "error")) < MaxPageErrors
    /\ yielded' = Append(yielded, [kind |-> "error", value |-> ErrorOf(pageCall)])
    /\ data' = DataAfterError(data, pageCall.data)
    /\ pageCall' = NoPageCall
    /\ UNCHANGED <<exhausted, cookie, pages, requests, setCalls, sessionVars,
                   managerVars, entryVars>>

\* A consumer that iterates over the pages of some server.
InitPages ==
    /\ InitManager(0, TRUE, FALSE)
    /\ InitSetsIdle
    /\ InitSessionIdle
    /\ InitEntryIdle
    /\ exhausted = FALSE
    /\ data = << >>
    /\ cookie = NoCookie
    /\ pageCall = NoPageCall
    /\ pages \in PageSequences
    /\ requests = << >>
    /\ yielded = << >>

NextPages == next \/ onPageData \/ onPageEnd \/ nextAfterPage

SpecPages == InitPages /\ [][NextPages]_vars

\* The same, with page loads that fail.
NextPageErrors == NextPages \/ onPageError

SpecPageErrors == InitPages /\ [][NextPageErrors]_vars

\* The entries of the first p pages of the server, in order, each named by
\* its page and its place in the page.
RECURSIVE EntriesUpTo(_)
EntriesUpTo(p) ==
    IF p = 0 THEN << >>
    ELSE EntriesUpTo(p - 1) \o [j \in 1..pages[p].entries |-> <<p, j>>]

\* What the next() calls have yielded so far, in order.
Values ==
    LET vs == SelectSeq(yielded, LAMBDA y : y.kind = "value")
    IN [i \in 1..Len(vs) |-> <<vs[i].value.of, vs[i].value.item>>]

\* next() has signalled the end of the sequence.
Done == \E i \in 1..Len(yielded) : yielded[i].kind = "done"

IsPrefix(s, u) == Len(s) <= Len(u) /\ SubSeq(u, 1, Len(s)) = s

\* C21 (paged iteration content): the items yielded by successive next()
\* calls are, in order, the entries (the messages after the first) of the
\* server's pages, each passed through handleEntry; when the end is
\* signalled all of them were yielded, none twice, and nothing is yielded
\* after the end.
C21_PagedContent ==
    /\ IsPrefix(Values, EntriesUpTo(Len(pages)))
    /\ Done => Values = EntriesUpTo(Len(pages))
    /\ \A i, j \in 1..Len(yielded) :
          yielded[i].kind = "done" /\ i < j => yielded[j].kind = "done"

\* C21: the end was signalled for three pages, of which the second holds the
\* cookie envelope only.
C21_Witness ==
    /\ Done
    /\ Len(pages) = 3
    /\ pages[1].entries = 2 /\ pages[2].entries = 0 /\ pages[3].entries = 1
    /\ Len(Values) = 3

\* The request that was served with the last page of the server.
LastPageRequests == {i \in 1..Len(requests) : PageFor(requests[i]) = Len(pages)}

\* C22 (iterator exhaustion): a page request is issued only by a next() that
\* finds the buffer empty and the advancer not exhausted; the i-th request
\* is served with the i-th page, so no page is requested twice; the end is
\* signalled only when every page was requested once, the one page with the
\* empty cookie among them, and the buffer is empty; and no request is
\* issued once the end was signalled.
C22_Exhaustion ==
    /\ [](/\ Len(requests) <= Len(pages)
          /\ \A i \in 1..Len(requests) : PageFor(requests[i]) = i
          /\ Done => /\ Len(requests) = Len(pages)
                     /\ Cardinality(LastPageRequests) = 1
                     /\ exhausted /\ data = << >>)
    /\ [][/\ requests' # requests =>
                /\ Len(requests') = Len(requests) + 1
                /\ data' = << >> /\ ~exhausted'
          /\ Done => requests' = requests]_vars

\* C22: for the pages [c1, e1, e2] and [empty cookie, e3] the end was
\* signalled, by two next() calls, after two page requests.
C22_Witness ==
    /\ Len(pages) = 2 /\ pages[1].entries = 2 /\ pages[2].entries = 1
    /\ Len(SelectSeq(yielded, LAMBDA y : y.kind = "done")) = 2
    /\ Len(Values) = 3
    /\ Len(requests) = 2

\* The page requests whose stream reported an error.
FailedLoads == {yielded[i].value.from : i \in {j \in 1..Len(yielded) : yielded[j].kind = "error"}}

\* C23 (page load failure): when the stream of a page request reports an
\* error, the pending next() fails with that error, and no message that the
\* failed request delivered is in the buffer or is yielded, by that or any
\* later next().
C23_PageLoadFailure ==
    /\ [](/\ \A i \in 1..Len(yielded) :
                yielded[i].kind = "value" => yielded[i].value.from \notin FailedLoads
          /\ \A i \in 1..Len(data) : data[i].rpc \notin FailedLoads)
    /\ [][pageCall.pc = "loading" /\ pageCall'.pc = "idle" =>
             yielded' = Append(yielded, [kind |-> "error", value |-> ErrorOf(pageCall)])]_vars

\* C23: a page load failed after the envelope and an entry had arrived, and
\* later next() calls yielded entries and signalled the end.
C23_Witness ==
    /\ \E i \in 1..Len(yielded) :
          /\ yielded[i].kind = "error" /\ yielded[i].value.item >= 2
          /\ \E j \in (i + 1)..Len(yielded) : yielded[j].kind = "value"
    /\ Done

\* The page requests that failed before any message of their page arrived.
EnvelopeLess ==
    {yielded[i].value.from :
        i \in {j \in 1..Len(yielded) : yielded[j].kind = "error" /\ yielded[j].value.item = 0}}

\* The cookie of the envelope that arrived last among those of the first i
\* page requests; none when no envelope arrived.
RECURSIVE CookieAfter(_)
CookieAfter(i) ==
    IF i = 0 THEN NoCookie
    ELSE IF i \in EnvelopeLess THEN CookieAfter(i - 1)
    ELSE ExtractCookie(Messages(PageFor(requests[i]), i)[1])

\* C30 (cookie threading): the first page request carries no cookie; every
\* later one carries, unmodified, the cookie of the envelope of the page
\* streamed before it (the last envelope that arrived, when a request
\* failed before its page began); and as long as no load failed no cookie
\* is sent twice.
C30_CookieThreading ==
    /\ Len(requests) >= 1 => requests[1] = NoCookie
    /\ \A i \in 1..Len(requests) : requests[i] = CookieAfter(i - 1)
    /\ FailedLoads = {} =>
          \A i, j \in 1..Len(requests) : i # j => requests[i] # requests[j]

\* C30: three pages were requested, the second with the cookie of the first
\* page and the third with the cookie of the second.
C30_Witness ==
    /\ Len(pages) = 3
    /\ requests = <<NoCookie, pages[1].cookie, pages[2].cookie>>
    /\ Done

(***************************************************************************)
(* The remote set views: KeySet, EntrySet and ValueSet over PagedSet.      *)
(***************************************************************************)

Views == {"KeySet", "EntrySet", "ValueSet"}

\* A method that throws.
Throws == [threw |-> TRUE, request |-> "none", result |-> "none"]

\* A method that returns the promise of a request of the named cache.
Calls(request) == [threw |-> FALSE, request |-> request, result |-> "pending"]

\* A method that returns a new PageAdvancer; the first page is requested by
\* its first next().
Advancer == [threw |-> FALSE, request |-> "none", result |-> "advancer"]

\* A set view that passes every operation to the named cache.
EverythingDelegated(op) == Calls(op)

\* class PagedSet
PagedSetMethod(op) ==
    CASE op = "add" -> Throws
      [] op = "clear" -> Calls("clear")
      [] op = "delete" -> Throws
      [] op = "forEach" -> Throws
      [] op = "has" -> Throws
      [] op = "size" -> Calls("size")
      [] op = "iterator" -> Throws
      [] op = "entries" -> Throws
      [] op = "keys" -> Throws
      [] op = "values" -> Throws

\* class KeySet
KeySetMethod(op) ==
    CASE op = "delete" -> Calls("remove")
      [] op = "has" -> Calls("containsKey")
      [] op = "asyncIterator" -> Advancer

\* class EntrySet
EntrySetMethod(op) ==
    CASE op = "delete" -> Calls("removeMapping")
      [] op = "asyncIterator" -> Advancer

\* class ValueSet
ValueSetMethod(op) ==
    CASE op = "delete" -> Throws
      [] op = "asyncIterator" -> Advancer

\* The methods a view class defines itself.
Overrides(view) ==
    CASE view = "KeySet" -> {"delete", "has", "asyncIterator"}
      [] view = "EntrySet" -> {"delete", "asyncIterator"}
      [] view = "ValueSet" -> {"delete", "asyncIterator"}

\* The method that view.op(...) runs: the one of its class, else the one
\* inherited from PagedSet.
Method(view, op) ==
    IF op \in Overrides(view)
    THEN CASE view = "KeySet" -> KeySetMethod(op)
           [] view = "EntrySet" -> EntrySetMethod(op)
           [] view = "ValueSet" -> ValueSetMethod(op)
    ELSE PagedSetMethod(op)

\* What the named cache may answer to a request: the previous value or null
\* for remove, a boolean for containsKey and removeMapping, nothing for
\* clear, a number for size; or an error.
Replies(request) ==
    CASE request = "remove" -> {"null", "v1", "error"}
      [] request = "containsKey" -> {"true", "false", "error"}
      [] request = "removeMapping" -> {"true", "false", "error"}
      [] request = "clear" -> {"void", "error"}
      [] request = "size" -> {"0", "1", "error"}

\* KeySet.delete: v != null || undefined
NotNullOrUndefined(v) == IF v # "null" THEN "true" ELSE "undefined"

\* How the promise a view method returned settles on the answer to its
\* request. KeySet.delete wraps the promise of remove in one of its own that
\* it resolves in then() and never rejects; the other methods return the
\* promise of the named cache.
Settle(call, reply) ==
    IF call.view = "KeySet" /\ call.op = "delete"
    THEN IF reply = "error" THEN "pending" ELSE NotNullOrUndefined(reply)
    ELSE IF reply = "error" THEN "rejected" ELSE reply

\* view.op(...) is called.
SetCall(view, op) ==
    /\ Len(setCalls) < MaxSetCalls
    /\ setCalls' = Append(setCalls, [view |-> view, op |-> op,
                                     threw |-> Method(view, op).threw,
                                     request |-> Method(view, op).request,
                                     reply |-> "none",
                                     result |-> Method(view, op).result])
    /\ UNCHANGED <<advancerVars, sessionVars, managerVars, entryVars>>

setAdd == \E view \in Views : SetCall(view, "add")

setClear == \E view \in Views : SetCall(view, "clear")

setDelete == \E view \in Views : SetCall(view, "delete")

setForEach == \E view \in Views : SetCall(view, "forEach")

setHas == \E view \in Views : SetCall(view, "has")

setSize == \E view \in Views : SetCall(view, "size")

setIterator == \E view \in Views : SetCall(view, "iterator")

setEntries == \E view \in Views : SetCall(view, "entries")

setKeys == \E view \in Views : SetCall(view, "keys")

setValues == \E view \in Views : SetCall(view, "values")

setAsyncIterator == \E view \in Views : SetCall(view, "asyncIterator")

\* The answer to the request of a view method arrives.
onSetReply ==
    /\ \E i \in 1..Len(setCalls) :
          /\ setCalls[i].request # "none"
          /\ setCalls[i].reply = "none"
          /\ \E reply \in Replies(setCalls[i].request) :
                setCalls' = [setCalls EXCEPT ![i].reply = reply,
                                             ![i].result = Settle(setCalls[i], reply)]
    /\ UNCHANGED <<advancerVars, sessionVars, managerVars, entryVars>>

InitSets ==
    /\ InitManager(0, TRUE, FALSE)
    /\ InitAdvancerIdle
    /\ InitSetsIdle
    /\ InitSessionIdle
    /\ InitEntryIdle

NextSets ==
    \/ setAdd \/ setClear \/ setDelete \/ setForEach \/ setHas \/ setSize
    \/ setIterator \/ setEntries \/ setKeys \/ setValues \/ setAsyncIterator
    \/ onSetReply

SpecSets == InitSets /\ [][NextSets]_vars

\* The synchronous enumeration methods and add.
Synchronous == {"forEach", "iterator", "entries", "keys", "values", "add"}

\* The call failed at once, and no request went to the server.
Unsupported(c) == c.threw /\ c.request = "none" /\ c.reply = "none"

\* C24 as stated: on every view forEach, the synchronous iterator, entries,
\* keys, values, has and add fail, and so does delete on a ValueSet; none of
\* these calls issues a request.
C24_Unsupported ==
    \A i \in 1..Len(setCalls) :
        LET c == setCalls[i]
        IN (c.op \in Synchronous \cup {"has"} \/ (c.view = "ValueSet" /\ c.op = "delete"))
              => Unsupported(c)

\* C24 (unsupported operations), amended: on every view forEach, the
\* synchronous iterator, entries, keys, values and add fail without a
\* request, and so do delete on a ValueSet and has on an EntrySet or a
\* ValueSet; has on a KeySet does not fail, it sends containsKey.
C24_UnsupportedButKeySetHas ==
    \A i \in 1..Len(setCalls) :
        LET c == setCalls[i]
        IN /\ c.op \in Synchronous => Unsupported(c)
           /\ c.view = "ValueSet" /\ c.op = "delete" => Unsupported(c)
           /\ c.view # "KeySet" /\ c.op = "has" => Unsupported(c)
           /\ c.view = "KeySet" /\ c.op = "has" => ~c.threw /\ c.request = "containsKey"

\* C24: has was called on a KeySet, which answered with the server's reply,
\* and then on an EntrySet, which failed.
C24_Witness ==
    /\ Len(setCalls) = 2
    /\ setCalls[1].view = "KeySet" /\ setCalls[1].op = "has" /\ setCalls[1].result = "true"
    /\ setCalls[2].view = "EntrySet" /\ setCalls[2].op = "has" /\ setCalls[2].threw

\* C25 as stated: KeySet.delete sends remove and, when the answer arrives,
\* resolves true if the server reported a previous value and false if it
\* reported none.
C25_KeySetDelete ==
    \A i \in 1..Len(setCalls) :
        LET c == setCalls[i]
        IN c.view = "KeySet" /\ c.op = "delete" =>
              /\ c.request = "remove"
              /\ c.reply = "v1" => c.result = "true"
              /\ c.reply = "null" => c.result = "false"

(***************************************************************************)
(* The session: getCache, close, and the lifecycle events of its caches.   *)
(***************************************************************************)

CacheNamesOfSession == {"a", "b"}

\* The format argument of getCache; it is optional.
Formats == {"undefined", "json", "pof"}

\* SessionBuilder.DEFAULT_FORMAT
DEFAULT_FORMAT == "json"

\* getCache: format ? format : SessionBuilder.DEFAULT_FORMAT
FormatOrDefault(format) == IF format = "undefined" THEN DEFAULT_FORMAT ELSE format

\* Session.makeCacheKey: cacheName + ':' + format
makeCacheKey(cacheName, format) == <<cacheName, format>>

\* Session.isKeyForCacheName: key.startsWith(cacheName + ':')
isKeyForCacheName(key, cacheName) == key[1] = cacheName

NoCache == <<"none", "none">>

\* A session that refuses getCache only when all its caches are gone.
RefusedOnceClosed == sessionClosed

\* getCache: if (this.markedForClose) throw new Error('Session already closed')
Refused == sessionMarkedForClose

\* Session.getCache(name, format)
getCache ==
    /\ Len(gets) < MaxGets
    /\ \E name \in CacheNamesOfSession, format \in Formats :
          LET cacheKey == makeCacheKey(name, FormatOrDefault(format))
              call == [key |-> cacheKey, afterClose |-> sessionClose # "none",
                       cached |-> cacheKey \in caches]
          IN IF Refused
             THEN /\ gets' = Append(gets, [key |-> call.key, afterClose |-> call.afterClose,
                                           cached |-> call.cached, threw |-> TRUE,
                                           returned |-> NoCache])
                  /\ UNCHANGED caches
             ELSE /\ caches' = caches \cup {cacheKey}
                  /\ gets' = Append(gets, [key |-> call.key, afterClose |-> call.afterClose,
                                           cached |-> call.cached, threw |-> FALSE,
                                           returned |-> cacheKey])
    /\ UNCHANGED <<sessionMarkedForClose, sessionClosed, sessionClose, advancerVars,
                   setCalls, managerVars, entryVars>>

\* Session.close(): a second call returns at once; the first marks the
\* session and releases the caches one by one, or closes the channel
\* directly when there is none.
close ==
    /\ IF sessionMarkedForClose
       THEN UNCHANGED <<sessionMarkedForClose, sessionClose>>
       ELSE /\ sessionMarkedForClose' = TRUE
            /\ sessionClose' = IF caches = {} THEN "closed" ELSE "releasing"
    /\ UNCHANGED <<sessionClosed, caches, gets, advancerVars, setCalls, managerVars, entryVars>>

\* The 'event' listener of the constructor.
ClosedAfterEvent(remaining) ==
    IF sessionMarkedForClose /\ remaining = {} THEN TRUE ELSE sessionClosed

\* A cache emits 'cache_released' or 'cache_closed', as it does when
\* close() or the application releases it.
onCacheReleased ==
    /\ \E key \in caches :
          /\ caches' = caches \ {key}
          /\ sessionClosed' = ClosedAfterEvent(caches \ {key})
    /\ UNCHANGED <<sessionMarkedForClose, sessionClose, gets, advancerVars, setCalls,
                   managerVars, entryVars>>

\* A cache emits 'cache_destroyed': every key of that cache name is dropped.
onCacheDestroyed ==
    /\ \E cacheName \in CacheNamesOfSession :
          LET dropped == {key \in caches : isKeyForCacheName(key, cacheName)}
          IN /\ dropped # {}
             /\ caches' = caches \ dropped
             /\ sessionClosed' = ClosedAfterEvent(caches \ dropped)
    /\ UNCHANGED <<sessionMarkedForClose, sessionClose, gets, advancerVars, setCalls,
                   managerVars, entryVars>>

\* close(), after the last await: this.channel.close()
closeChannel ==
    /\ sessionClose = "releasing"
    /\ caches = {}
    /\ sessionClose' = "closed"
    /\ UNCHANGED <<sessionMarkedForClose, sessionClosed, caches, gets, advancerVars,
                   setCalls, managerVars, entryVars>>

InitSession ==
    /\ InitManager(0, TRUE, FALSE)
    /\ InitAdvancerIdle
    /\ InitSetsIdle
    /\ InitSessionIdle
    /\ InitEntryIdle

NextSession == getCache \/ close \/ onCacheReleased \/ onCacheDestroyed \/ closeChannel

SpecSession == InitSession /\ [][NextSession]_vars

\* C26 (getCache on a closed session): every getCache made after close()
\* was called throws and returns no cache, whether its cache key is held or
\* not, and no step after close() adds a cache to the session.
C26_GetCacheAfterClose ==
    /\ [](\A i \in 1..Len(gets) :
             gets[i].afterClose => gets[i].threw /\ gets[i].returned = NoCache)
    /\ [][sessionClose # "none" => caches' \subseteq caches]_vars

\* C26: after close() getCache was called for a cache the session held and
\* for one it did not hold.
C26_Witness ==
    \E i, j \in 1..Len(gets) :
        /\ gets[i].afterClose /\ gets[i].cached /\ gets[i].threw
        /\ gets[j].afterClose /\ ~gets[j].cached /\ gets[j].threw

\* The call removed the only record of its group.
RemovedLastRecord(c) ==
    /\ c.op = "remove"
    /\ Len(c.preListeners) = 1
    /\ c.preListeners[1].h = c.h

\* No index of the manager holds an entry for the target of call c.
Dropped(c) ==
    IF c.kind = "key"
    THEN keyMap[c.target] = 0
    ELSE filterMap[c.target] = 0 /\ filterId2ListenerGroup[FilterIdOf(c.target)] = 0

NonLiteRecords(g) == Cardinality({i \in 1..Len(g.listeners) : ~g.listeners[i].isLite})

\* C28 (isLiteFalseCount bookkeeping): once the calls made have completed,
\* isLiteFalseCount of every group held in keyMap or filterMap is the number
\* of its records whose lite flag is false, and is not negative.
C28_LiteFalseCount ==
    Quiescent =>
        \A gid \in IndexedGroups :
            /\ groups[gid].isLiteFalseCount = NonLiteRecords(groups[gid])
            /\ groups[gid].isLiteFalseCount >= 0

\* The states of a stream that has failed or ended without being closed by
\* closeEventStream.
Broken == {"failed", "ended", "aborted"}

\* C29 (stream failure with outstanding requests): no caller waits for the
\* ack of a request on a stream that has reported an error or its end: the
\* promise writeRequest returned was resolved by the ack before, or is
\* rejected when the stream reports.
C29_RejectedOnFailure ==
    \A c \in calls :
        c.pc \in {"a_sub", "a_unsub"} => streams[c.stream].st \notin Broken

(***************************************************************************)
(* NamedCacheEntry: the key and the value are deserialized on demand.      *)
(***************************************************************************)

\* The serialized forms an entry may hold, as JSON text.
Bytes == {"{\"a\":1}", "\"x\"", "7", "true", "0", "\"\"", "false", "null"}

\* serializer.deserialize(bytes)
Deserialize(bytes) ==
    CASE bytes = "{\"a\":1}" -> [type |-> "object", v |-> "a:1"]
      [] bytes = "\"x\"" -> [type |-> "string", v |-> "x"]
      [] bytes = "7" -> [type |-> "number", v |-> "7"]
      [] bytes = "true" -> [type |-> "boolean", v |-> "true"]
      [] bytes = "0" -> [type |-> "number", v |-> "0"]
      [] bytes = "\"\"" -> [type |-> "string", v |-> ""]
      [] bytes = "false" -> [type |-> "boolean", v |-> "false"]
      [] bytes = "null" -> [type |-> "null", v |-> "null"]

\* !x: the values JavaScript takes for false in a condition
Not(x) ==
    \/ x.type \in {"undefined", "null"}
    \/ x.type = "number" /\ x.v = "0"
    \/ x.type = "string" /\ x.v = ""
    \/ x.type = "boolean" /\ x.v = "false"

\* NamedCacheEntry.getKey()
getKey ==
    /\ Len(entryReads) < MaxEntryReads
    /\ LET key == IF Not(entry.key) THEN Deserialize(entry.keyBytes) ELSE entry.key
       IN /\ entry' = [entry EXCEPT !.key = key]
          /\ deserialized' = IF Not(entry.key) THEN Append(deserialized, "key")
                             ELSE deserialized
          /\ entryReads' = Append(entryReads, [field |-> "key", returned |-> key])
    /\ UNCHANGED <<advancerVars, setCalls, sessionVars, managerVars>>

\* NamedCacheEntry.getValue()
getValue ==
    /\ Len(entryReads) < MaxEntryReads
    /\ LET value == IF Not(entry.value) THEN Deserialize(entry.valueBytes) ELSE entry.value
       IN /\ entry' = [entry EXCEPT !.value = value]
          /\ deserialized' = IF Not(entry.value) THEN Append(deserialized, "value")
                             ELSE deserialized
          /\ entryReads' = Append(entryReads, [field |-> "value", returned |-> value])
    /\ UNCHANGED <<advancerVars, setCalls, sessionVars, managerVars>>

\* new NamedCacheEntry(keyBytes, valueBytes, serializer)
InitEntry ==
    /\ InitManager(0, TRUE, FALSE)
    /\ InitAdvancerIdle
    /\ InitSetsIdle
    /\ InitSessionIdle
    /\ \E keyBytes \in Bytes, valueBytes \in Bytes :
          entry = [keyBytes |-> keyBytes, valueBytes |-> valueBytes, key |-> Undefined,
                   value |-> Undefined]
    /\ entryReads = << >>
    /\ deserialized = << >>

NextEntry == getKey \/ getValue

SpecEntry == InitEntry /\ [][NextEntry]_vars

\* How often field f of the entry was deserialized, and how often it was read.
TimesDeserialized(f) == Len(SelectSeq(deserialized, LAMBDA d : d = f))
TimesRead(f) == Len(SelectSeq(entryReads, LAMBDA r : r.field = f))

\* C31 (one-shot deserialization): the key is not deserialized before the
\* first getKey and is deserialized at most once however often getKey is
\* called, and likewise the value with getValue.
C31_OneShot ==
    \A f \in {"key", "value"} :
        /\ TimesRead(f) = 0 => TimesDeserialized(f) = 0
        /\ TimesDeserialized(f) <= 1

\* An application that awaits every call and passes null for the filter.
NextNull ==
    \/ \E h \in Handlers, k \in Keys, isLite \in BOOLEAN : registerKeyListener(h, k, isLite)
    \/ \E h \in Handlers, k \in Keys : removeKeyListener(h, k)
    \/ \E h \in Handlers, isLite \in BOOLEAN : registerFilterListener(h, NullFilter, isLite)
    \/ \E h \in Handlers : removeFilterListener(h, NullFilter)
    \/ \E c \in calls : writeRequest(c)
    \/ \E u \in unacked : handleResponseAck(u)
    \/ \E c \in calls : postUnsubscribe(c)
    \/ \E c \in calls : postSubscribe(c)
    \/ closeEventStream
    \/ \E c \in calls : cancelStream(c)
    \/ \E s \in 1..MaxStreams : onError(s)
    \/ \E s \in 1..MaxStreams : onEnd(s)
    \/ \E s \in 1..MaxStreams : onCancel(s)

SpecNull == InitSerial /\ [][NextNull]_vars

\* The groups of the filter for all events that hold a record.
AlwaysGroups ==
    {gid \in 1..Len(groups) :
        /\ groups[gid].kind = "filter"
        /\ groups[gid].target = DEFAULT_FILTER
        /\ Len(groups[gid].listeners) > 0}

\* C32 (null filter normalization): once the calls made have completed, the
\* handlers registered with a null filter and not removed are the records
\* of one group, which is the entry of DEFAULT_FILTER in filterMap, and a
\* handler removed with a null filter is a record of no group.
C32_NullFilter ==
    Quiescent =>
        /\ Cardinality(AlwaysGroups) <= 1
        /\ \A h \in Handlers :
              IF registered[FilterT(DEFAULT_FILTER)][h] # "none"
              THEN /\ filterMap[DEFAULT_FILTER] # 0
                   /\ Present(groups[filterMap[DEFAULT_FILTER]].listeners, h)
              ELSE \A gid \in AlwaysGroups : ~Present(groups[gid].listeners, h)

\* No group holds a record: every listener was unregistered.
NoListeners == \A gid \in 1..Len(groups) : groups[gid].listeners = << >>

\* C33 (stream closed with the last listener): once a removeListener that
\* removed the last record over all groups has completed, no stream is open
\* unless its close is under way.
C33_ClosedWithLastListener ==
    (Quiescent /\ RemovedLastRecord(lastCall) /\ NoListeners) =>
        \A s \in 1..MaxStreams : streams[s].st = "open" => markedForClose

\* The subscription requests written to stream s for target t, in order.
WrittenFor(s, t) ==
    SelectSeq(wire, LAMBDA w : /\ w.stream = s
                               /\ w.req.type \in {"SUBSCRIBE", "UNSUBSCRIBE"}
                               /\ w.req.kind = t.kind
                               /\ w.req.target = t.target)

\* C34 (one logical subscription per target): the requests written to a
\* stream for a key or a filter alternate, SUBSCRIBE first: SUBSCRIBE,
\* UNSUBSCRIBE, SUBSCRIBE, ...
C34_Alternation ==
    \A s \in 1..MaxStreams, t \in Targets :
        \A i \in 1..Len(WrittenFor(s, t)) :
            WrittenFor(s, t)[i].req.type = IF i % 2 = 1 THEN "SUBSCRIBE" ELSE "UNSUBSCRIBE"

\* The SUBSCRIBE requests written for the target of group g, in order.
Subscribes(g) ==
    SelectSeq(wire, LAMBDA w : /\ w.req.type = "SUBSCRIBE"
                               /\ w.req.kind = g.kind
                               /\ w.req.target = g.target)

\* C35 (negotiated detail level): once the calls made have completed, for
\* every group held in keyMap or filterMap that holds a record, the lite
\* flag of the last SUBSCRIBE the server acknowledged for its target is true
\* exactly when all records of the group are lite.
C35_NegotiatedLevel ==
    Quiescent =>
        \A gid \in IndexedGroups :
            (Len(groups[gid].listeners) > 0 /\ Len(Subscribes(groups[gid])) > 0) =>
                Subscribes(groups[gid])[Len(Subscribes(groups[gid]))].req.lite
                    = AllLite(groups[gid])

\* The target of group gid, as the application names it.
TargetOf(gid) == [kind |-> groups[gid].kind, target |-> groups[gid].target]

\* C36 (removal is effective): an EVENT that arrives when the calls made
\* have completed invokes, through a group, only handlers that are
\* registered on the key or filter of that group and were not removed since.
C36_RemovalEffective ==
    [][(EventHandled /\ Quiescent) =>
        \A i \in 1..Len(lastDispatch'.calls) :
            registered[TargetOf(lastDispatch'.calls[i].gid)][lastDispatch'.calls[i].h]
                # "none"]_vars

\* Group gid is the entry of its key in keyMap', or of its filter in
\* filterMap', after the step.
IndexedAfter(gid) ==
    IF groups[gid].kind = "key"
    THEN keyMap'[groups[gid].target] = gid
    ELSE filterMap'[groups[gid].target] = gid

\* Call c completes in this step the removal of the last record of its
\* group: the ack of its UNSUBSCRIBE has arrived and postUnsubscribe runs.
TeardownCompletes(c) ==
    /\ c.op = "remove" /\ c.pc = "p_unsub" /\ c.next = "return"
    /\ c \notin calls'

\* C37 (re-registration race): when the ack of the UNSUBSCRIBE sent for the
\* last record of a group is handled after an addListener has put a new
\* record into that group, the group stays in the index of its target.
C37_LateUnsubscribe ==
    [][\A c \in calls :
          (TeardownCompletes(c) /\ Len(groups[c.gid].listeners) > 0) =>
              IndexedAfter(c.gid)]_vars

\* The step in which a page load fails with a transport error.
LoadFails == pageCall.pc = "loading" /\ pageCall'.pc = "idle"

\* C38 (state unchanged on page failure): when a page load fails, the
\* cookie is the one the failed request was sent with, the advancer is not
\* exhausted and its buffer is empty, as before the load; and the request
\* that follows a failed one carries the cookie of the failed one, so the
\* same page is requested again.
C38_UnchangedOnFailure ==
    /\ [][LoadFails => /\ cookie' = requests[pageCall.rpc]
                       /\ ~exhausted'
                       /\ data' = << >>]_vars
    /\ [](\A i \in FailedLoads : i < Len(requests) => requests[i + 1] = requests[i])

\* The answer to the INIT request of stream s is still to come.
InitAnswerToCome(s) ==
    \E p \in pendingSubscriptions :
        p.owner = "init" /\ p.stream = s /\ AnswerToCome(p.uid)

\* C39 (closeEventStream terminates): a closeEventStream call waits for the
\* promise of an open stream only while the promise is resolved (the call
\* then goes on to cancel the stream) or the answer to the INIT request is
\* still to come, so it never waits for an answer that never comes; and a
\* call that finds the manager marked for close returns at once and leaves
\* the streams as they are.
C39_CloseTerminates ==
    /\ [](\A c \in calls :
             c.op = "close" /\ c.pc = "c_await" /\ streams[c.stream].st = "open"
                 => PromiseResolved(c.stream) \/ InitAnswerToCome(c.stream))
    /\ [][markedForClose /\ closed' = closed + 1 /\ calls' = calls
             => streams' = streams /\ unacked' = unacked]_vars

\* C40 (session close reaches the closed state): once close() was called
\* and the session holds no cache, isClosed() is true (and waitUntilClosed
\* has resolved), whether the session held caches when close() was called
\* or none; and isClosed() is true only when the session holds no cache.
C40_SessionCloses ==
    /\ sessionMarkedForClose /\ caches = {} => sessionClosed
    /\ sessionClosed => caches = {}

====
